---- MODULE Spec2Model ----
(***************************************************************************)
(* A model of the salone move generator: the GADDAG of src/src/dag.rs and  *)
(* the Solver / MoveGenerator of src/src/solver.rs.                        *)
(*                                                                         *)
(* Words are sequences of one-character strings.  An arc of the graph is   *)
(* named by the sequence of labels leading to it from the root: the        *)
(* initial arc is << >>, and the arc reached from the initial arc's node   *)
(* by 'a', Delim, 'b' is <<"a", "#", "b">>.  A Rust Option is a sequence   *)
(* of length 0 (None) or 1 (Some).                                         *)
(***************************************************************************)
EXTENDS Integers, Sequences, FiniteSets

\* ------------------------------------------------------------------ bounds

\* the longest word added to the dictionary
MaxWordLen == 2
\* the most letters the words of the dictionary have, taken together
MaxDictLetters == 4
\* the largest rack handed to generate_moves
MaxRack == 2
\* the largest board: rows x cols, both odd
MaxRows == 3
MaxCols == 5

\* solver.rs line 99: the set every cross set starts as. The code's alphabet is
\* a..z; the model's is its first two letters
Charset == {"a", "b"}

\* dag.rs Kind::Delim; Kind::Char(c) is the letter c itself
Delim == "#"

None == << >>
Some(x) == <<x>>

\* ------------------------------------------------------------- input sets

SeqsUpTo(S, lo, hi) == UNION {[1..n -> S] : n \in lo..hi}

Words == SeqsUpTo(Charset, 1, MaxWordLen)

\* solver.rs RackLetter and TileLetter
RackBlank == [kind |-> "Blank", ch |-> "_"]
RackChar(c) == [kind |-> "Char", ch |-> c]
TileBlank(c) == [kind |-> "Blank", ch |-> c]
TileChar(c) == [kind |-> "Char", ch |-> c]

RackLetters == {RackBlank} \cup {RackChar(c) : c \in Charset}
TileLetters == {TileBlank(c) : c \in Charset} \cup {TileChar(c) : c \in Charset}
Racks == SeqsUpTo(RackLetters, 0, MaxRack)

to_char(tile) == tile.ch

TilePlacement(letter, row, col) == [letter |-> letter, row |-> row, col |-> col]

\* the orders in which a HashSet<char> holding the whole charset may iterate
Orders ==
    LET n == Cardinality(Charset)
    IN {o \in [1..n -> Charset] : \A i, j \in 1..n : o[i] = o[j] => i = j}

\* ------------------------------------------------------------------ dag.rs

NewGraph == [arcs |-> {}, letter_set |-> {}]

Reverse(s) == [i \in 1..Len(s) |-> s[Len(s) + 1 - i]]

RECURSIVE Node_add_word(_, _, _)

\* Arc::add_word on the arc `arc`, reached by the label `kind`, with `words` left
Arc_add_word(g, arc, kind, words) ==
    IF kind # Delim /\ words = << >>
    THEN [g EXCEPT !.letter_set = @ \cup {<<arc, kind>>}]
    ELSE Node_add_word(g, arc, words)

\* Node::add_word on the node the arc `node` leads to
Node_add_word(g, node, words) ==
    LET next == Head(words)
        arc == Append(node, next)
    IN Arc_add_word([g EXCEPT !.arcs = @ \cup {arc}], arc, next, Tail(words))

\* rotated_form gone wrong: the delimiter is forgotten
rotated_form_no_delim(word, i) ==
    Reverse(SubSeq(word, 1, i)) \o SubSeq(word, i + 1, Len(word))

\* the vector Graph::add_word builds for the split point i
rotated_form(word, i) ==
    LET head == Reverse(SubSeq(word, 1, i))
        tail == SubSeq(word, i + 1, Len(word))
    IN head \o (IF tail # << >> THEN <<Delim>> ELSE << >>) \o tail

RECURSIVE Graph_add_word_from(_, _, _)
Graph_add_word_from(g, word, i) ==
    IF i > Len(word) THEN g
    ELSE Graph_add_word_from(Node_add_word(g, << >>, rotated_form(word, i)), word, i + 1)

Graph_add_word(g, word) == Graph_add_word_from(g, word, 1)

\* arc.next.arcs.get(kind)
next_arc(g, arc, kind) == IF Append(arc, kind) \in g.arcs THEN Some(Append(arc, kind)) ELSE None

\* arc.letter_set
letter_set(g, arc) == {c \in Charset : <<arc, c>> \in g.letter_set}

\* --------------------------------------------------------------- solver.rs

VARIABLES
    rows, cols,     \* Solver.rows, Solver.cols
    graph,          \* Solver.graph
    board,          \* Solver.board: index -> Option<TileLetter>
    cross_sets,     \* Solver.cross_sets: <<left-right sets, top-down sets>>, by index
    candidates,     \* Solver.candidates: the anchors
    pc,             \* where the running call stands; "idle" between calls
    letters,        \* generate_moves: the rack argument
    solutions,      \* generate_moves: the heap being filled, in push order
    todo,           \* generate_moves: what is left of the cloned candidates
    candidate,      \* generate_moves: the candidate of this iteration
    pass,           \* generate_moves: the first or the second pass of the loop body
    lma,            \* get_left_most_anchor: its locals row and col
    ret,            \* the last call: its arguments, and its result once it returned
    dictionary,     \* history: the words added so far
    fresh,          \* history: nothing but add_dictionary_word was called so far
    inspected,      \* history: the cells generate read in the last generate_moves
    events          \* history: what go_on decided in the last generate_moves

vars == <<rows, cols, graph, board, cross_sets, candidates, pc, letters, solutions,
          todo, candidate, pass, lma, ret, dictionary, fresh, inspected, events>>

LR == "LR"
TD == "TD"

OddUpTo(n) == {k \in 1..n : k % 2 = 1}

Centre == <<rows \div 2, cols \div 2>>

\* Solver::get_index
get_index(row, col) == (cols * row) + col

\* an index a Vec of rows * cols elements accepts
InVec(i) == i >= 0 /\ i < rows * cols

\* Solver::get_cross_set, for an index the Vec accepts
get_cross_set(row, col, dir) ==
    IF dir = LR THEN cross_sets[1][get_index(row, col)]
                ELSE cross_sets[2][get_index(row, col)]

\* the cell at `offset` from the anchor along the direction
Shifted(self, offset) ==
    IF self.dir = LR THEN <<self.row, self.col + offset>>
                     ELSE <<self.row + offset, self.col>>

\* the elements of a HashSet in the order its iterator yields them
IterOf(set, ord) == SelectSeq(ord, LAMBDA c : c \in set)

\* Vec::remove(idx), idx counted from 1
Remove(s, idx) == SubSeq(s, 1, idx - 1) \o SubSeq(s, idx + 1, Len(s))

\* the state of a MoveGenerator: its moves, the placement vector all the calls share,
\* and the history of the walk
NewGenerator ==
    [moves |-> << >>, placements |-> << >>, inspected |-> {}, events |-> {}, panicked |-> FALSE]

RECURSIVE generate(_, _, _, _, _, _)
RECURSIVE go_on(_, _, _, _, _, _, _, _)
RECURSIVE rack_loop(_, _, _, _, _, _, _, _)
RECURSIVE blank_loop(_, _, _, _, _, _, _, _, _)

\* go_on, lines 361-368
empty_left(self, row, col) ==
    IF self.dir = TD
    THEN row > 0 /\ board[get_index(row - 1, col)] = None
    ELSE col > 0 /\ board[get_index(row, col - 1)] = None

\* go_on, lines 392-401
empty_right(self, row, col) ==
    IF self.dir = TD
    THEN row + 1 < rows /\ board[get_index(row + 1, col)] = None
    ELSE col + 1 < cols /\ board[get_index(row, col + 1)] = None

\* the cell after (row, col) in the walking direction is empty or off the board
NextFree(self, row, col, offset) ==
    LET step == IF offset <= 0 THEN -1 ELSE 1
        r == IF self.dir = TD THEN row + step ELSE row
        c == IF self.dir = LR THEN col + step ELSE col
    IN  \/ r < 0 \/ r >= rows \/ c < 0 \/ c >= cols
        \/ board[get_index(r, c)] = None

\* MoveGenerator::go_on
go_on(G, self, ord, letter, offset, rack, old_arc, new_arc) ==
    IF G.panicked THEN G
    ELSE
    LET cell == Shifted(self, offset)
        row == cell[1]
        col == cell[2]
        tp == TilePlacement(letter, row, col)
        ending == to_char(letter) \in letter_set(graph, old_arc)
    IN  IF offset <= 0
        THEN LET placements == <<tp>> \o G.placements
                 record == ending /\ empty_left(self, row, col)
                 G1 == [G EXCEPT !.placements = placements,
                                 !.moves = IF record THEN Append(@, placements) ELSE @,
                                 !.events = @ \cup {[row |-> row, col |-> col, offset |-> offset,
                                                     ending |-> ending,
                                                     free |-> NextFree(self, row, col, offset),
                                                     recorded |-> record]}]
             IN  IF new_arc # None
                 THEN LET arc == new_arc[1]
                          G2 == IF (self.dir = LR /\ col > 0) \/ (self.dir = TD /\ row > 0)
                                THEN generate(G1, self, ord, offset - 1, rack, arc)
                                ELSE G1
                          delim == next_arc(graph, arc, Delim)
                      IN  IF delim # None
                          THEN generate(G2, self, ord, 1, rack, delim[1])
                          ELSE G2
                 ELSE G1
        ELSE LET placements == Append(G.placements, tp)
                 record == ending /\ empty_right(self, row, col)
                 G1 == [G EXCEPT !.placements = placements,
                                 !.moves = IF record THEN Append(@, placements) ELSE @,
                                 !.events = @ \cup {[row |-> row, col |-> col, offset |-> offset,
                                                     ending |-> ending,
                                                     free |-> NextFree(self, row, col, offset),
                                                     recorded |-> record]}]
             IN  IF (self.dir = LR /\ col < cols - 1) \/ (self.dir = TD /\ row < cols - 1)
                 THEN IF new_arc # None
                      THEN generate(G1, self, ord, offset + 1, rack, new_arc[1])
                      ELSE G1
                 ELSE G1

\* generate, lines 328-334: a blank stands for each letter of the cross set in turn
blank_loop(G, self, ord, playables, k, idx, offset, rack, arc) ==
    IF k > Len(playables) \/ G.panicked THEN G
    ELSE LET playable == playables[k]
             new_arc == next_arc(graph, arc, playable)
             new_rack == Remove(rack, idx)
         IN  blank_loop(go_on(G, self, ord, TileBlank(playable), offset, new_rack, arc, new_arc),
                        self, ord, playables, k + 1, idx, offset, rack, arc)

\* generate, lines 318-338: each rack letter in turn
rack_loop(G, self, ord, cross_set, idx, offset, rack, arc) ==
    IF idx > Len(rack) \/ G.panicked THEN G
    ELSE LET letter == rack[idx]
             G1 == IF letter.kind = "Char" /\ letter.ch \in cross_set
                   THEN go_on(G, self, ord, TileChar(letter.ch), offset, Remove(rack, idx), arc,
                              next_arc(graph, arc, letter.ch))
                   ELSE IF letter.kind = "Blank"
                   THEN blank_loop(G, self, ord, IterOf(cross_set, ord), 1, idx, offset, rack, arc)
                   ELSE G
         IN  rack_loop(G1, self, ord, cross_set, idx + 1, offset, rack, arc)

\* MoveGenerator::generate
generate(G, self, ord, offset, rack, arc) ==
    IF G.panicked THEN G
    ELSE
    LET index == get_index(self.row, self.col)
    IN  IF board[index] # None
        THEN LET tile == board[index][1]
             IN  go_on(G, self, ord, tile, offset, rack, arc, next_arc(graph, arc, to_char(tile)))
        ELSE IF rack = << >> THEN G
        ELSE LET cell == Shifted(self, offset)
                 G1 == [G EXCEPT !.inspected = @ \cup {cell}]
             IN  IF ~(cell[1] >= 0 /\ cell[2] >= 0 /\ InVec(get_index(cell[1], cell[2])))
                 THEN [G1 EXCEPT !.panicked = TRUE]
                 ELSE LET cross_set == get_cross_set(cell[1], cell[2], self.dir)
                      IN  IF cross_set = {} THEN G1
                          ELSE rack_loop(G1, self, ord, cross_set, 1, offset, rack, arc)

\* MoveGenerator::generate_moves
MoveGenerator_generate_moves(rack, row, col, dir, ord) ==
    generate(NewGenerator, [row |-> row, col |-> col, dir |-> dir], ord, 0, rack, << >>)

\* generate_moves_in_dir gone wrong: the cells played are left in the anchor set
generate_moves_in_dir_keeps_anchors(cands, sols, tiles) ==
    [candidates |-> cands,
     solutions |-> sols \o [i \in 1..Len(tiles) |-> [placement |-> tiles[i], score |-> 0]]]

\* Solver::generate_moves_in_dir, lines 257-267, for the moves `tiles` of the generator
generate_moves_in_dir(cands, sols, tiles) ==
    [candidates |-> cands \ UNION {{<<tiles[i][j].row, tiles[i][j].col>> :
                                       j \in 1..Len(tiles[i])} : i \in 1..Len(tiles)},
     solutions |-> sols \o [i \in 1..Len(tiles) |-> [placement |-> tiles[i], score |-> 0]]]

\* the shortest moves place_tiles accepts on an empty board: two tiles of one row or
\* one column, side by side, covering the centre
LegalFirstMoves ==
    LET r0 == Centre[1]
        c0 == Centre[2]
        Across == {[i \in 1..Len(ls) |-> TilePlacement(TileChar(ls[i]), r0, s + i - 1)] :
                     <<s, ls>> \in {x \in (0..cols - 1) \X SeqsUpTo(Charset, 2, 2) :
                                      x[1] <= c0 /\ c0 <= x[1] + Len(x[2]) - 1
                                                 /\ x[1] + Len(x[2]) - 1 <= cols - 1}}
        Down ==   {[i \in 1..Len(ls) |-> TilePlacement(TileChar(ls[i]), s + i - 1, c0)] :
                     <<s, ls>> \in {x \in (0..rows - 1) \X SeqsUpTo(Charset, 2, 2) :
                                      x[1] <= r0 /\ r0 <= x[1] + Len(x[2]) - 1
                                                 /\ x[1] + Len(x[2]) - 1 <= rows - 1}}
    IN Across \cup Down

\* the letters of the words of a dictionary, counted
RECURSIVE DictLetters(_)
DictLetters(d) ==
    IF d = {} THEN 0
    ELSE LET w == CHOOSE w \in d : TRUE IN Len(w) + DictLetters(d \ {w})

NoCall == [op |-> "new", rack |-> << >>, placements |-> << >>, solutions |-> << >>, fresh |-> TRUE]

\* Solver::new(rows, cols), for odd rows and cols
Init ==
    /\ rows \in OddUpTo(MaxRows)
    /\ cols \in OddUpTo(MaxCols)
    /\ graph = NewGraph
    /\ board = [i \in 0..rows * cols - 1 |-> None]
    /\ cross_sets = <<[i \in 0..rows * cols - 1 |-> Charset], [i \in 0..rows * cols - 1 |-> Charset]>>
    /\ candidates = {<<rows \div 2, cols \div 2>>}
    /\ pc = "idle"
    /\ letters = << >>
    /\ solutions = << >>
    /\ todo = {}
    /\ candidate = <<0, 0>>
    /\ pass = 1
    /\ lma = [row |-> 0, col |-> 0]
    /\ ret = NoCall
    /\ dictionary = {}
    /\ fresh = TRUE
    /\ inspected = {}
    /\ events = {}

\* Solver::add_dictionary_word
add_dictionary_word(word) ==
    /\ pc = "idle"
    /\ DictLetters(dictionary \cup {word}) <= MaxDictLetters
    /\ graph' = Graph_add_word(graph, word)
    /\ dictionary' = dictionary \cup {word}
    /\ ret' = [NoCall EXCEPT !.op = "add_dictionary_word", !.fresh = fresh]
    /\ inspected' = {}
    /\ events' = {}
    /\ UNCHANGED <<rows, cols, board, cross_sets, candidates, pc, letters, solutions, todo,
                   candidate, pass, lma, fresh>>

\* Solver::place_tiles: the body is empty; compute_candidates and compute_cross_sets
\* have no caller
place_tiles(placements) ==
    /\ pc = "idle"
    /\ ret' = [NoCall EXCEPT !.op = "place_tiles", !.placements = placements, !.fresh = fresh]
    /\ fresh' = FALSE
    /\ inspected' = {}
    /\ events' = {}
    /\ UNCHANGED <<rows, cols, graph, board, cross_sets, candidates, pc, letters, solutions,
                   todo, candidate, pass, lma, dictionary>>

\* Solver::generate_moves, lines 232-234: the call, up to the head of the loop
generate_moves(rack) ==
    /\ pc = "idle"
    /\ letters' = rack
    /\ solutions' = << >>
    /\ todo' = candidates
    /\ inspected' = {}
    /\ events' = {}
    /\ pc' = "for"
    /\ ret' = [NoCall EXCEPT !.op = "generate_moves", !.rack = rack, !.fresh = fresh]
    /\ fresh' = FALSE
    /\ UNCHANGED <<rows, cols, graph, board, cross_sets, candidates, candidate, pass, lma,
                   dictionary>>

\* Solver::generate_moves, line 236: the loop takes the next candidate of the clone,
\* and line 237 calls get_left_most_anchor on it
generate_moves_for ==
    /\ pc = "for"
    /\ \E c \in todo :
        /\ candidate' = c
        /\ todo' = todo \ {c}
        /\ lma' = [row |-> c[1], col |-> c[2]]
    /\ pass' = 1
    /\ pc' = "while"
    /\ UNCHANGED <<rows, cols, graph, board, cross_sets, candidates, letters, solutions,
                   ret, dictionary, fresh, inspected, events>>

\* Solver::get_left_most_anchor, line 137: the loop's test holds. Both passes of
\* generate_moves ask for Direction::LR (lines 237 and 242), so the arm of lines
\* 135-144 is the one that runs
get_left_most_anchor_while ==
    /\ pc = "while"
    /\ lma.row > 0
    /\ pc' = "if"
    /\ UNCHANGED <<rows, cols, graph, board, cross_sets, candidates, letters, solutions,
                   todo, candidate, pass, lma, ret, dictionary, fresh, inspected, events>>

\* Solver::get_left_most_anchor, lines 138-140: the loop's body
get_left_most_anchor_if ==
    /\ pc = "if"
    /\ lma' = IF <<lma.row - 1, lma.col>> \in candidates
              THEN [lma EXCEPT !.row = @ - 1]
              ELSE lma
    /\ pc' = "while"
    /\ UNCHANGED <<rows, cols, graph, board, cross_sets, candidates, letters, solutions,
                   todo, candidate, pass, ret, dictionary, fresh, inspected, events>>

\* Solver::generate_moves, lines 237-240 and again 242-245: get_left_most_anchor
\* returns (line 143), and the moves of its anchor are generated, left to right
generate_moves_pass(ord) ==
    /\ pc = "while"
    /\ lma.row = 0
    /\ LET anchor == <<lma.row, lma.col>>
           G == IF anchor \in candidates
                THEN MoveGenerator_generate_moves(letters, anchor[1], anchor[2], LR, ord)
                ELSE NewGenerator
           out == generate_moves_in_dir(candidates, solutions, G.moves)
       IN  /\ inspected' = inspected \cup G.inspected
           /\ events' = events \cup G.events
           /\ IF G.panicked
              THEN /\ pc' = "panicked"
                   /\ UNCHANGED <<candidates, solutions, pass, lma>>
              ELSE /\ candidates' = out.candidates
                   /\ solutions' = out.solutions
                   /\ IF pass = 1
                      THEN /\ pass' = 2
                           /\ lma' = [row |-> candidate[1], col |-> candidate[2]]
                           /\ pc' = "while"
                      ELSE /\ pc' = "for"
                           /\ UNCHANGED <<pass, lma>>
    /\ UNCHANGED <<rows, cols, graph, board, cross_sets, letters, todo, candidate, ret,
                   dictionary, fresh>>

\* Solver::generate_moves, line 248: the loop is over and the heap is returned
generate_moves_return ==
    /\ pc = "for"
    /\ todo = {}
    /\ ret' = [ret EXCEPT !.solutions = solutions]
    /\ pc' = "idle"
    /\ letters' = << >>
    /\ solutions' = << >>
    /\ candidate' = <<0, 0>>
    /\ pass' = 1
    /\ lma' = [row |-> 0, col |-> 0]
    /\ UNCHANGED <<rows, cols, graph, board, cross_sets, candidates, todo, dictionary,
                   fresh, inspected, events>>

Next ==
    \/ \E word \in Words : add_dictionary_word(word)
    \/ \E placements \in LegalFirstMoves : place_tiles(placements)
    \/ \E rack \in Racks : generate_moves(rack)
    \/ generate_moves_for
    \/ get_left_most_anchor_while
    \/ get_left_most_anchor_if
    \/ \E ord \in Orders : generate_moves_pass(ord)
    \/ generate_moves_return

Spec == Init /\ [][Next]_vars


\* ------------------------------------------------------------------ claims

\* generate_moves has returned
Returned == pc = "idle" /\ ret.op = "generate_moves"

Range(s) == {s[i] : i \in 1..Len(s)}
Count(s, x) == Cardinality({i \in 1..Len(s) : s[i] = x})

\* the letter a cell shows once the placements ps are laid on the board, one after
\* the other
Placed(ps, r, c) == {j \in 1..Len(ps) : ps[j].row = r /\ ps[j].col = c}
Occupied(ps, r, c) == Placed(ps, r, c) # {} \/ board[get_index(r, c)] # None
LetterAt(ps, r, c) ==
    IF Placed(ps, r, c) # {}
    THEN to_char(ps[CHOOSE j \in Placed(ps, r, c) : \A k \in Placed(ps, r, c) : k <= j].letter)
    ELSE to_char(board[get_index(r, c)][1])

\* the main word of a left-to-right solution: the letters of the unbroken run of
\* occupied cells through the solution's first placement
MainWord(ps) ==
    LET r == ps[1].row
        c0 == ps[1].col
        lo == CHOOSE c \in 0..c0 : /\ \A x \in c..c0 : Occupied(ps, r, x)
                                   /\ (c = 0 \/ ~Occupied(ps, r, c - 1))
        hi == CHOOSE c \in c0..cols - 1 : /\ \A x \in c0..c : Occupied(ps, r, x)
                                          /\ (c = cols - 1 \/ ~Occupied(ps, r, c + 1))
    IN [k \in 1..hi - lo + 1 |-> LetterAt(ps, r, lo + k - 1)]

\* C1: the main word of every solution generate_moves returns is a word that was
\* added to the dictionary
C1_MainWordInDictionary ==
    Returned => \A i \in 1..Len(ret.solutions) : MainWord(ret.solutions[i].placement) \in dictionary

\* the rack is, letter for letter, the multiset of the letters of the word w
RackOfWord(rack, w) ==
    /\ Len(rack) = Len(w)
    /\ \A c \in Charset : Count(rack, RackChar(c)) = Count(w, c)

\* the placements ps spell w from left to right on neighbouring cells of one row and
\* cover the centre
SpellsThroughCentre(ps, w) ==
    \E r \in 0..rows - 1, lo \in 0..cols - 1 :
        /\ {<<ps[j].row, ps[j].col>> : j \in 1..Len(ps)} = {<<r, lo + k - 1>> : k \in 1..Len(w)}
        /\ \A j \in 1..Len(ps) : to_char(ps[j].letter) = w[ps[j].col - lo + 1]
        /\ Centre \in {<<r, lo + k - 1>> : k \in 1..Len(w)}

\* C2: on a fresh solver, for every dictionary word whose letters are the rack,
\* generate_moves returns a solution that spells the word through the centre
C2_EveryWordIsFound ==
    (Returned /\ ret.fresh) =>
        \A w \in dictionary :
            RackOfWord(ret.rack, w) =>
                \E i \in 1..Len(ret.solutions) : SpellsThroughCentre(ret.solutions[i].placement, w)

\* the loop of get_left_most_anchor is in its body, and the body changes nothing: the
\* test that held holds again, and the steps of the call are the loop's, for ever
Spinning == pc = "if" /\ <<lma.row - 1, lma.col>> \notin candidates

\* C3: every call of generate_moves terminates and returns a collection (it neither
\* panics nor enters a loop it cannot leave), and with an empty rack the collection
\* it returns is empty
C3_GenerateMovesIsTotal ==
    /\ pc # "panicked"
    /\ ~Spinning
    /\ (Returned /\ ret.rack = << >>) => ret.solutions = << >>

\* the board with the placements ps applied
Applied(b, ps) ==
    [i \in DOMAIN b |->
        IF \E j \in 1..Len(ps) : get_index(ps[j].row, ps[j].col) = i
        THEN Some(ps[CHOOSE j \in 1..Len(ps) : get_index(ps[j].row, ps[j].col) = i].letter)
        ELSE b[i]]

\* C4: place_tiles leaves every cell named in the placements holding the
\* placement's tile, and every other cell as it was
C4_PlaceTilesAppliesMove ==
    [][\A ps \in LegalFirstMoves : place_tiles(ps) => board' = Applied(board, ps)]_vars

\* the cells next to (r, c), up, down, left and right, on the board
Neighbours(r, c) ==
    {n \in {<<r - 1, c>>, <<r + 1, c>>, <<r, c - 1>>, <<r, c + 1>>} :
        n[1] >= 0 /\ n[1] < rows /\ n[2] >= 0 /\ n[2] < cols}

Cells == (0..rows - 1) \X (0..cols - 1)
BoardEmpty == \A i \in DOMAIN board : board[i] = None

\* what the anchor set is to be for the board
Anchors ==
    {x \in Cells : /\ board[get_index(x[1], x[2])] = None
                   /\ \E n \in Neighbours(x[1], x[2]) : board[get_index(n[1], n[2])] # None}
    \cup (IF BoardEmpty THEN {Centre} ELSE {})

\* C5: between calls, the anchor set is the set of empty cells with an occupied
\* neighbour, together with the centre iff the board is empty
C5_AnchorInvariant == pc = "idle" => candidates = Anchors

\* C6: every solution returned takes a sub-multiset of the rack: no more blanks than
\* the rack has blanks, no more tiles of a letter than the rack has of that letter
C6_SolutionUsesRack ==
    Returned =>
        \A i \in 1..Len(ret.solutions) :
            LET ps == ret.solutions[i].placement
                tiles == [j \in 1..Len(ps) |-> ps[j].letter]
            IN  /\ Cardinality({j \in 1..Len(ps) : tiles[j].kind = "Blank"}) <= Count(ret.rack, RackBlank)
                /\ \A c \in Charset : Count(tiles, TileChar(c)) <= Count(ret.rack, RackChar(c))
                /\ Len(ps) <= Len(ret.rack)

\* the labels c_i ... c_1, Delim (left out when i = n), c_(i+1) ... c_n
PathOfSplit(w, i) ==
    LET n == Len(w)
    IN [k \in 1..(IF i < n THEN n + 1 ELSE n) |->
           IF k <= i THEN w[i + 1 - k] ELSE IF k = i + 1 THEN Delim ELSE w[k - 1]]

\* the place of c_n on the path of the split point i: its last label, or, with no
\* delimiter (i = n), its first
PlaceOfLast(w, i) == IF i < Len(w) THEN Len(w) + 1 ELSE 1

\* C7 as claimed: for every word added and every split point, the graph holds the
\* path c_i ... c_1 Delim c_(i+1) ... c_n from its root, and the arc carrying c_n has
\* c_n in its letter set
C7_GaddagPathsAsClaimed ==
    \A w \in dictionary : \A i \in 1..Len(w) :
        LET path == PathOfSplit(w, i)
        IN  /\ \A k \in 1..Len(path) : SubSeq(path, 1, k) \in graph.arcs
            /\ w[Len(w)] \in letter_set(graph, SubSeq(path, 1, PlaceOfLast(w, i)))

\* C7: for every word added and every split point, the graph holds the path
\* c_i ... c_1 Delim c_(i+1) ... c_n from its root, and the last arc of the path has
\* its own label in its letter set: c_n if i < n, c_1 if i = n
C7_GaddagPaths ==
    \A w \in dictionary : \A i \in 1..Len(w) :
        LET path == PathOfSplit(w, i)
        IN  /\ \A k \in 1..Len(path) : SubSeq(path, 1, k) \in graph.arcs
            /\ (IF i < Len(w) THEN w[Len(w)] ELSE w[1]) \in letter_set(graph, path)

\* two words are in the graph, one of them with a delimiter on its paths and with a
\* first letter that is not its last
C7_Witness ==
    /\ Cardinality(dictionary) >= 2
    /\ \E w \in dictionary : Len(w) >= 2 /\ w[1] # w[Len(w)]

\* the canonical keys of two placement lists are equal: sorted, they are the same list
SameKey(ps, qs) ==
    /\ Len(ps) = Len(qs)
    /\ \A x \in Range(ps) \cup Range(qs) : Count(ps, x) = Count(qs, x)

\* C8: no two solutions of the collection generate_moves returns have the same
\* canonical key
C8_NoDuplicateSolutions ==
    Returned =>
        \A i, j \in 1..Len(ret.solutions) :
            i # j => ~SameKey(ret.solutions[i].placement, ret.solutions[j].placement)

\* generate_moves returned two or more solutions for a rack holding a letter twice
C8_Witness ==
    /\ Returned
    /\ Len(ret.solutions) >= 2
    /\ \E i, j \in 1..Len(ret.rack) : i # j /\ ret.rack[i] = ret.rack[j]

\* C9: whenever go_on handles a letter of the old arc's letter set and the next cell
\* in the walking direction is empty or off the board, it records the move
C9_RecordRule == \A e \in events : (e.ending /\ e.free) => e.recorded

\* C10: every cell generate reads lies on the board
C10_WalkStaysOnBoard ==
    \A cell \in inspected : cell[1] >= 0 /\ cell[1] < rows /\ cell[2] >= 0 /\ cell[2] < cols

====
